---- MODULE Spec2Model ----
(***************************************************************************)
(* A model of scan.py, the receipt scanner: the remote analysis client     *)
(* (analyze_document), the receipt normalizer                              *)
(* (extract_and_validate_receipt), the batch orchestrator                  *)
(* (process_receipt_path_concurrently) and the result sink (save_results). *)
(*                                                                         *)
(* Conventions.  Python's None is the empty tuple and a value v that may   *)
(* be None is carried as <<v>>.  A string is a tuple of one-character      *)
(* strings, so that split, strip, upper, lower and `in` are computed.      *)
(* Amounts of money are exact decimals counted in thousandths (Mills);     *)
(* where the result of the binary floating-point operation is decided by   *)
(* the representation error (a rounding tie, a comparison at exactly the   *)
(* tolerance) the outcome is an input, fp, that takes both values.         *)
(***************************************************************************)
EXTENDS Integers, Sequences, FiniteSets, TLC

None == <<>>
Some(v) == <<v>>
Val(o) == o[1]

(***************************************************************************)
(* Strings.                                                                *)
(***************************************************************************)
UpperChars == <<"A","B","C","D","E","F","G","H","I","J","K","L","M",
                "N","O","P","Q","R","S","T","U","V","W","X","Y","Z">>
LowerChars == <<"a","b","c","d","e","f","g","h","i","j","k","l","m",
                "n","o","p","q","r","s","t","u","v","w","x","y","z">>
Whitespace == {" ", "\t", "\r", "\n"}

UpperChar(c) ==
    IF \E i \in 1..26 : LowerChars[i] = c
    THEN UpperChars[CHOOSE i \in 1..26 : LowerChars[i] = c]
    ELSE c

LowerChar(c) ==
    IF \E i \in 1..26 : UpperChars[i] = c
    THEN LowerChars[CHOOSE i \in 1..26 : UpperChars[i] = c]
    ELSE c

\* str.upper() and str.lower()
upper(s) == [i \in 1..Len(s) |-> UpperChar(s[i])]
lower(s) == [i \in 1..Len(s) |-> LowerChar(s[i])]

\* k in s, for strings: k occurs in s as a substring
contains(s, k) ==
    \E i \in 0..(Len(s) - Len(k)) : SubSeq(s, i + 1, i + Len(k)) = k

\* str.strip(): leading and trailing whitespace removed
RECURSIVE lstrip(_)
lstrip(s) ==
    IF s # <<>> /\ Head(s) \in Whitespace THEN lstrip(Tail(s)) ELSE s

RECURSIVE rstrip(_)
rstrip(s) ==
    IF s # <<>> /\ s[Len(s)] \in Whitespace
    THEN rstrip(SubSeq(s, 1, Len(s) - 1)) ELSE s

strip(s) == rstrip(lstrip(s))

\* str.split('\n'): the pieces between the newlines, empty pieces kept
RECURSIVE SplitFrom(_, _, _)
SplitFrom(s, i, cur) ==
    IF i > Len(s) THEN <<cur>>
    ELSE IF s[i] = "\n" THEN <<cur>> \o SplitFrom(s, i + 1, <<>>)
    ELSE SplitFrom(s, i + 1, Append(cur, s[i]))

split(s) == SplitFrom(s, 1, <<>>)

RECURSIVE FilterNonEmpty(_)
FilterNonEmpty(ls) ==
    IF ls = <<>> THEN <<>>
    ELSE IF Head(ls) # <<>> THEN <<Head(ls)>> \o FilterNonEmpty(Tail(ls))
    ELSE FilterNonEmpty(Tail(ls))

\* ls[:n]
Take(ls, n) == SubSeq(ls, 1, IF Len(ls) < n THEN Len(ls) ELSE n)


(***************************************************************************)
(* The backend's response (azure AnalyzeResult).  A field of a document is *)
(* None when the backend did not return it, else Some of a DocumentField   *)
(* [value, confidence] whose value may itself be None.                     *)
(***************************************************************************)
Absent == None
Field(v) == Some([value |-> v, confidence |-> 90])

\* Python truthiness of an optional string / an optional number
TruthyStr(o) == o # None /\ Val(o) # <<>>
TruthyNum(o) == o # None /\ Val(o) # 0

\* x or 0.0
OrZero(o) == IF TruthyNum(o) THEN Val(o) ELSE 0

Abs(x) == IF x < 0 THEN -x ELSE x

\* str(date), str(time): the textual form of the value
str(v) == <<"str", v>>

(***************************************************************************)
(* Arithmetic of the validation.  Amounts are in thousandths.              *)
(***************************************************************************)
\* 0.01, the tolerance of the comparison
Tolerance == 10

\* the step of round(x, 2), one hundredth
Cent == 10

FP == [tie_up : BOOLEAN, edge_below : BOOLEAN]

\* round(x, 2): the closest hundredth; halfway between two hundredths the
\* direction depends on the binary representation of the operand
round(x, fp) ==
    LET r == x % Cent
        down == x - r
    IN  IF 2 * r < Cent THEN down
        ELSE IF 2 * r > Cent THEN down + Cent
        ELSE IF fp.tie_up THEN down + Cent ELSE down

\* the comparison without abs()
WithinTolerance_signed(a, b, fp) ==
    IF Abs(a - b) = Tolerance THEN fp.edge_below ELSE a - b < Tolerance

\* abs(a - b) < 0.01 in floating point: decided by the representation error
\* when the exact difference is the tolerance itself
WithinTolerance(a, b, fp) ==
    LET d == Abs(a - b)
    IN  IF d = Tolerance THEN fp.edge_below ELSE d < Tolerance

(***************************************************************************)
(* extract_and_validate_receipt                                            *)
(***************************************************************************)
get_field(doc, field_name) ==
    LET field == doc.fields[field_name]
    IN  IF field # None THEN <<Val(field).value, Val(field).confidence>>
        ELSE <<None, 0>>

JUNK_WORDS ==
    { <<"R","E","C","E","I","P","T">>,
      <<"I","N","V","O","I","C","E">>,
      <<"B","I","L","L">>,
      <<"T","A","X"," ","I","N","V","O","I","C","E">>,
      <<"C","A","S","H"," ","M","E","M","O">>,
      <<"T","H","A","N","K"," ","Y","O","U">> }

\* [:5] of the non-blank lines
VendorLines == 5

\* len(line) > 2
MinVendorLen == 2

RECURSIVE StripAll(_)
StripAll(ls) ==
    IF ls = <<>> THEN <<>> ELSE <<strip(Head(ls))>> \o StripAll(Tail(ls))

\* [line.strip() for line in content.split('\n') if line.strip()][:5]
possible_lines(content) ==
    Take(FilterNonEmpty(StripAll(split(content))), VendorLines)

\* the junk list matched without upper()
VendorLineOk_cased(line) ==
    line \notin JUNK_WORDS /\ Len(line) > MinVendorLen

VendorLineOk(line) ==
    upper(line) \notin JUNK_WORDS /\ Len(line) > MinVendorLen

\* the for loop over possible_lines, with its break
RECURSIVE VendorLoop(_, _)
VendorLoop(lines, vendor) ==
    IF lines = <<>> THEN vendor
    ELSE IF VendorLineOk(Head(lines)) THEN <<Some(Head(lines)), "Heuristic-Guess">>
    ELSE VendorLoop(Tail(lines), vendor)

\* lines 76-86: the backend's vendor name, or the guess from the text
VendorName(result, doc) ==
    LET vendor == get_field(doc, "VendorName")
    IN  IF ~TruthyStr(vendor[1]) /\ TruthyStr(result.content)
        THEN VendorLoop(possible_lines(Val(result.content)), vendor)
        ELSE vendor

DISCOUNT_KEYWORDS ==
    { <<"d","i","s","c","o","u","n","t">>,
      <<"c","o","u","p","o","n">>,
      <<"s","a","v","i","n","g">> }

DefaultPrice == 0
DefaultQuantity == 1

\* desc and any(k in desc.lower() for k in [...])
HasKeyword(desc) ==
    TruthyStr(desc) /\ \E k \in DISCOUNT_KEYWORDS : contains(lower(Val(desc)), k)

\* `and` in place of `or`
IsDiscount_and(desc, price) == HasKeyword(desc) /\ Val(price) < 0

\* desc and any(...) or price < 0
IsDiscount(desc, price) == HasKeyword(desc) \/ Val(price) < 0

\* lines 99-112, one pass of the loop over the backend's items; acc is
\* [items, discount, raised].  A TotalPrice whose value is None makes
\* price < 0, or abs(price), raise TypeError.
RECURSIVE ItemsLoop(_, _)
ItemsLoop(items, acc) ==
    IF items = <<>> \/ acc.raised THEN acc
    ELSE LET item == Head(items)
             desc_f == item.value.Description
             price_f == item.value.TotalPrice
             qty_f == item.value.Quantity
             desc == IF desc_f # None THEN Val(desc_f).value ELSE None
             price == IF price_f # None THEN Val(price_f).value
                      ELSE Some(DefaultPrice)
             qty == IF qty_f # None THEN Val(qty_f).value
                    ELSE Some(DefaultQuantity)
             appended == Append(acc.items,
                 [description |-> desc, quantity |-> qty, price |-> price])
         IN  IF price = None
             THEN [acc EXCEPT !.items = appended, !.raised = TRUE]
             ELSE ItemsLoop(Tail(items),
                 [items |-> appended,
                  discount |-> IF IsDiscount(desc, price)
                               THEN acc.discount + Abs(Val(price))
                               ELSE acc.discount,
                  raised |-> FALSE])

EmptyDict == <<>>

Returned(v) == [raised |-> FALSE, value |-> v]
Raised == [raised |-> TRUE, value |-> None]

\* result is None, or Some of the backend's response
extract_and_validate_receipt(result, fp) ==
    IF result = None \/ Val(result).documents = <<>> THEN Returned(EmptyDict)
    ELSE
    LET res == Val(result)
        doc == res.documents[1]
        vendor == VendorName(res, doc)
        date_val == get_field(doc, "TransactionDate")[1]
        time_val == get_field(doc, "TransactionTime")[1]
        subtotal == get_field(doc, "Subtotal")[1]
        tax == get_field(doc, "TotalTax")[1]
        tip == get_field(doc, "Tip")[1]
        total == get_field(doc, "Total")[1]
        items_field == doc.fields["Items"]
        start == [items |-> <<>>, discount |-> 0, raised |-> FALSE]
        loop == IF items_field # None /\ Val(items_field).value # None
                   /\ Val(Val(items_field).value) # <<>>
                THEN ItemsLoop(Val(Val(items_field).value), start)
                ELSE start
        calculated_total ==
            OrZero(subtotal) - loop.discount + OrZero(tax) + OrZero(tip)
        validation_passed == WithinTolerance(calculated_total, OrZero(total), fp)
    IN  IF loop.raised THEN Raised
        ELSE Returned(
            [items |-> loop.items,
             vendor_name |-> vendor[1],
             date |-> IF date_val # None THEN Some(str(Val(date_val))) ELSE None,
             time |-> IF time_val # None THEN Some(str(Val(time_val))) ELSE None,
             subtotal |-> subtotal,
             tax |-> tax,
             tip |-> tip,
             discount |-> loop.discount,
             total |-> total,
             validation_info |->
                 [calculated_total |-> round(calculated_total, fp),
                  validation_passed |-> validation_passed]])


(***************************************************************************)
(* State.                                                                  *)
(***************************************************************************)
VARIABLES
    result_in,      \* the argument of a call of extract_and_validate_receipt
    details_out,    \* None until the call ends, then Some of its outcome
    fs,             \* what the input path of a batch run refers to
    fault_limit,    \* how many times the environment may misbehave in a run
    main,           \* where process_receipt_path_concurrently stands
    image_paths,    \* the images of the run, in the order of submission
    queue,          \* the executor's work queue: submitted, not yet started
    unit,           \* per image: the frame of its analyze_document call
    future,         \* per image: None, or Some(<<result, filename>>)
    collected,      \* the futures the as_completed loop has consumed
    all_results,    \* the result collection
    results_list,   \* the argument of the last call of save_results
    saves,          \* how many times save_results was called
    json_file,      \* extraction_log.json: None, or Some of the list dumped
    csv_file        \* extraction_log.csv: None, or Some of its lines

normVars == <<result_in, details_out>>
batchVars == <<fs, fault_limit, main, image_paths, queue, unit, future, collected,
               all_results>>
saveVars == <<results_list, saves, json_file, csv_file>>
vars == <<normVars, batchVars, saveVars>>

(***************************************************************************)
(* Inputs of the normalizer.                                               *)
(***************************************************************************)
ACME == <<"A","c","m","e">>
DATE == "2024-01-05"
TIME == "12:30:00"

Response(fields, content) ==
    [documents |-> <<[fields |-> fields]>>, content |-> content]

NoDocument == [documents |-> <<>>, content |-> None]

BaseFields ==
    [VendorName |-> Field(Some(ACME)),
     TransactionDate |-> Field(Some(DATE)),
     TransactionTime |-> Field(Some(TIME)),
     Subtotal |-> Field(Some(10000)),
     TotalTax |-> Field(Some(800)),
     Tip |-> Absent,
     Total |-> Field(Some(10800)),
     Items |-> Absent]

\* '\n'.join(ls)
RECURSIVE Join(_)
Join(ls) ==
    IF ls = <<>> THEN <<>>
    ELSE IF Len(ls) = 1 THEN Head(ls)
    ELSE Head(ls) \o <<"\n">> \o Join(Tail(ls))

L_RECEIPT == <<"R","E","C","E","I","P","T">>
L_THANKS == <<"T","h","a","n","k"," ","Y","o","u">>
L_THANKS_CR == <<" ","T","h","a","n","k"," ","Y","o","u","\r">>
L_JOE == <<"J","o","e","'","s"," ","D","i","n","e","r">>
L_MAIN == <<"1","2","3"," ","M","a","i","n"," ","S","t">>
L_SHORT == <<"a","b">>
L_BLANK == <<" ","\t">>

MaxLines == 6

LinePool == {L_THANKS_CR, L_JOE, L_BLANK}

SeqsUpTo(S, n) == UNION {[1..k -> S] : k \in 0..n}

Contents ==
    {None, Some(<<>>), Some(L_BLANK),
     Some(Join(<<L_RECEIPT, L_THANKS, L_JOE, L_MAIN>>)),
     Some(Join(<<L_MAIN, L_JOE>>)),
     Some(Join(<<L_RECEIPT, <<>>, L_MAIN>>)),
     Some(Join(<<L_SHORT>>)),
     Some(Join(<<L_SHORT, L_JOE, L_MAIN>>)),
     Some(Join(<<L_THANKS, L_SHORT, L_BLANK, L_MAIN, L_JOE>>))}
    \cup {Some(Join(ls)) : ls \in SeqsUpTo(LinePool, MaxLines)}

VendorFields == {Absent, Field(None), Field(Some(<<>>)), Field(Some(ACME))}

VendorInputs ==
    {Some(Response([BaseFields EXCEPT !.VendorName = v], c)) :
        v \in VendorFields, c \in Contents}

\* the result sink at rest, nothing written yet
SinkIdle ==
    /\ results_list = <<>>
    /\ saves = 0
    /\ json_file = None
    /\ csv_file = None

\* the batch orchestrator at rest
BatchIdle ==
    /\ SinkIdle
    /\ fs = [kind |-> "missing", entries |-> <<>>]
    /\ fault_limit = 0
    /\ main = "idle"
    /\ image_paths = <<>>
    /\ queue = <<>>
    /\ unit = <<>>
    /\ future = <<>>
    /\ collected = {}
    /\ all_results = <<>>

InitVendor ==
    /\ result_in \in VendorInputs
    /\ details_out = None
    /\ BatchIdle

(***************************************************************************)
(* One call of extract_and_validate_receipt on result_in.                  *)
(***************************************************************************)
Normalize ==
    /\ details_out = None
    /\ \E fp \in FP :
        details_out' = Some(extract_and_validate_receipt(result_in, fp))
    /\ UNCHANGED <<result_in, batchVars, saveVars>>

SpecVendor == InitVendor /\ [][Normalize]_vars


(***************************************************************************)
(* Inputs for the items loop and for the validation.                       *)
(***************************************************************************)
D_LOYALTY == <<"L","o","y","a","l","t","y"," ","D","i","s","c","o","u","n","t">>
D_COUPON == <<"C","O","U","P","O","N">>
D_MILK == <<"M","i","l","k">>

MaxItems == 2

DescFields == {Absent, Field(None), Field(Some(D_LOYALTY)), Field(Some(D_COUPON)),
               Field(Some(D_MILK))}
PriceFields == {Absent, Field(None), Field(Some(-5000)), Field(Some(2500))}
QtyFields == {Absent, Field(None), Field(Some(2))}

ItemPool ==
    {[value |-> [Description |-> d, TotalPrice |-> p, Quantity |-> Absent]] :
        d \in DescFields, p \in PriceFields}
    \cup {[value |-> [Description |-> Field(Some(D_MILK)),
                      TotalPrice |-> Field(Some(2500)), Quantity |-> q]] :
        q \in QtyFields}

ItemsFields ==
    {Absent, Field(None)} \cup {Field(Some(is)) : is \in SeqsUpTo(ItemPool, MaxItems)}

ItemsInputs ==
    {Some(Response([BaseFields EXCEPT !.Items = f], None)) : f \in ItemsFields}

\* every known field absent, null or present
Optional(v) == {Absent, Field(None), Field(Some(v))}

KnownFieldsInputs ==
    {Some(Response(
        [VendorName |-> vn, TransactionDate |-> td, TransactionTime |-> tt,
         Subtotal |-> st, TotalTax |-> tx, Tip |-> tp, Total |-> tl,
         Items |-> Absent], None)) :
        vn \in Optional(ACME), td \in Optional(DATE), tt \in Optional(TIME),
        st \in Optional(10000), tx \in Optional(800), tp \in Optional(150),
        tl \in Optional(10950)}

InitItems ==
    /\ result_in \in ItemsInputs \cup KnownFieldsInputs \cup {None, Some(NoDocument)}
    /\ details_out = None
    /\ BatchIdle

SpecItems == InitItems /\ [][Normalize]_vars

Amount(S) == {Absent, Field(None)} \cup {Field(Some(a)) : a \in S}

OneItem(d, p) ==
    Field(Some(<<[value |-> [Description |-> Field(Some(d)),
                              TotalPrice |-> Field(Some(p)),
                              Quantity |-> Absent]]>>))

TotalsInputs ==
    {Some(Response(
        [BaseFields EXCEPT !.Subtotal = st, !.TotalTax = tx, !.Tip = tp,
                           !.Total = tl, !.Items = it], None)) :
        st \in Amount({0, 10000, 10004, 10005, 10006}),
        tx \in Amount({800}),
        tp \in Amount({150, 155}),
        tl \in Amount({0, 10000, 10010, 10013, 10800, 10950, 10965}),
        it \in {Absent, OneItem(D_LOYALTY, -5000), OneItem(D_MILK, 2500)}}

InitTotals ==
    /\ result_in \in TotalsInputs
    /\ details_out = None
    /\ BatchIdle

SpecTotals == InitTotals /\ [][Normalize]_vars


(***************************************************************************)
(* The file system seen by a batch run.  A path is [dir, name]; a name is  *)
(* [stem, ext].                                                            *)
(***************************************************************************)
EXT_PNG == <<".","p","n","g">>
EXT_JPG_UPPER == <<".","J","P","G">>
EXT_JPEG == <<".","j","p","e","g">>
EXT_TXT == <<".","t","x","t">>

IMAGE_EXTENSIONS == {EXT_PNG, <<".","j","p","g">>, EXT_JPEG}

\* f.lower().endswith(('.png', '.jpg', '.jpeg'))
IsImage(name) == lower(name.ext) \in IMAGE_EXTENSIONS

INPUT_DIR == "receipts"

join(dir, name) == [dir |-> dir, name |-> name]
basename(path) == [dir |-> "", name |-> path.name]

ImageName(i) ==
    [stem |-> i, ext |-> IF i % 2 = 1 THEN EXT_PNG ELSE EXT_JPG_UPPER]
NOTES == [stem |-> 0, ext |-> EXT_TXT]

\* a directory of n images and a text file
Directory(n) ==
    [kind |-> "dir", entries |-> <<NOTES>> \o [i \in 1..n |-> ImageName(i)]]
SingleFile == [kind |-> "file", entries |-> <<ImageName(1)>>]
Missing == [kind |-> "missing", entries |-> <<>>]

RECURSIVE Images(_)
Images(entries) ==
    IF entries = <<>> THEN <<>>
    ELSE IF IsImage(Head(entries))
         THEN <<join(INPUT_DIR, Head(entries))>> \o Images(Tail(entries))
         ELSE Images(Tail(entries))

(***************************************************************************)
(* analyze_document, run by a worker of the pool.                          *)
(***************************************************************************)
MAX_RETRIES == 3
max_workers == 5

RECURSIVE Pow2(_)
Pow2(n) == IF n = 0 THEN 1 ELSE 2 * Pow2(n - 1)

Files == 1..Len(image_paths)
InFlight == {f \in Files : unit[f].pc \in {"try", "sleep"}}

NewFrame == [pc |-> "queued", found |-> FALSE, attempt |-> 0, attempts |-> 0,
             clients |-> 0, waits |-> <<>>]

\* a nominal response, one without a document, one with a null item price
NoFields ==
    [VendorName |-> Absent, TransactionDate |-> Absent, TransactionTime |-> Absent,
     Subtotal |-> Absent, TotalTax |-> Absent, Tip |-> Absent, Total |-> Absent,
     Items |-> Absent]
GoodResponse == Response([NoFields EXCEPT !.Total = Field(Some(0))], None)
NullPriceResponse ==
    Response([NoFields EXCEPT !.Items =
        Field(Some(<<[value |-> [Description |-> Field(Some(D_MILK)),
                                 TotalPrice |-> Field(None),
                                 Quantity |-> Absent]]>>))], None)
OddResponses == {NoDocument, NullPriceResponse}

\* the faults of the environment so far: a missing file, a backend call that
\* raised, a response that is not the nominal one
RECURSIVE FaultsOf(_)
FaultsOf(f) ==
    IF f = 0 THEN 0
    ELSE FaultsOf(f - 1)
         + Len(unit[f].waits)
         + (IF unit[f].pc = "sleep" THEN 1 ELSE 0)
         + (IF unit[f].pc = "done" /\ Val(future[f])[1] = None THEN 1 ELSE 0)
         + (IF future[f] # None /\ Val(future[f])[1] # None
               /\ Val(Val(future[f])[1]) \in OddResponses THEN 1 ELSE 0)

CanFail == FaultsOf(Len(image_paths)) < fault_limit

\* the pool runs at most max_workers units at once
HasFreeWorker_unbounded == TRUE

HasFreeWorker == Cardinality(InFlight) < max_workers

\* lines 29-31 without the return
AfterExistsCheck_fallthrough(u, exists) ==
    IF exists THEN [u EXCEPT !.pc = "try", !.found = TRUE]
    ELSE [u EXCEPT !.pc = "try"]

\* lines 29-31: a path that does not exist ends the call at once
AfterExistsCheck(u, exists) ==
    IF exists THEN [u EXCEPT !.pc = "try", !.found = TRUE]
    ELSE [u EXCEPT !.pc = "done"]

\* a sleep after the last attempt too
ShouldSleep_always(attempt) == attempt < MAX_RETRIES

\* line 47: attempt < MAX_RETRIES - 1
ShouldSleep(attempt) == attempt < MAX_RETRIES - 1

\* a worker takes the head of the queue and enters analyze_document
Start(f) ==
    /\ main \in {"collect", "unwind"}
    /\ queue # <<>> /\ f = Head(queue)
    /\ HasFreeWorker
    /\ queue' = Tail(queue)
    /\ \E exists \in BOOLEAN :
        /\ exists \/ CanFail
        /\ LET u == AfterExistsCheck(unit[f], exists)
           IN  /\ unit' = [unit EXCEPT ![f] = u]
               /\ future' = IF u.pc = "done"
                            THEN [future EXCEPT ![f] =
                                    Some(<<None, basename(image_paths[f])>>)]
                            ELSE future
    /\ UNCHANGED <<normVars, saveVars, fs, fault_limit, main, image_paths,
                   collected, all_results>>

\* one pass of the retry loop, lines 36-51, up to its return or its sleep
Attempt(f) ==
    /\ f \in Files
    /\ unit[f].pc = "try"
    /\ LET u == [unit[f] EXCEPT !.attempts = @ + 1, !.clients = @ + 1]
       IN  \/ /\ unit' = [unit EXCEPT ![f] = [u EXCEPT !.pc = "done"]]
              /\ \/ /\ future' = [future EXCEPT ![f] =
                            Some(<<Some(GoodResponse), basename(image_paths[f])>>)]
                 \/ /\ CanFail
                    /\ \E r \in OddResponses :
                        future' = [future EXCEPT ![f] =
                            Some(<<Some(r), basename(image_paths[f])>>)]
           \/ /\ CanFail
              /\ IF ShouldSleep(u.attempt)
                 THEN /\ unit' = [unit EXCEPT ![f] = [u EXCEPT !.pc = "sleep"]]
                      /\ UNCHANGED future
                 ELSE /\ unit' = [unit EXCEPT ![f] = [u EXCEPT !.pc = "done"]]
                      /\ future' = [future EXCEPT ![f] =
                            Some(<<None, basename(image_paths[f])>>)]
    /\ UNCHANGED <<normVars, saveVars, fs, fault_limit, main, image_paths, queue, collected,
                   all_results>>

\* time.sleep(2 ** attempt) ends and the loop goes to its next attempt
Wake(f) ==
    /\ f \in Files
    /\ unit[f].pc = "sleep"
    /\ unit' = [unit EXCEPT ![f] =
            [@ EXCEPT !.pc = "try", !.waits = Append(@, Pow2(unit[f].attempt)),
                      !.attempt = @ + 1]]
    /\ UNCHANGED <<normVars, saveVars, fs, fault_limit, main, image_paths, queue, future,
                   collected, all_results>>

(***************************************************************************)
(* process_receipt_path_concurrently                                       *)
(***************************************************************************)
\* lines 150-168: the images of the path, all submitted to the executor
Resolve ==
    /\ main = "start"
    /\ LET paths == IF fs.kind = "dir" THEN Images(fs.entries)
                    ELSE IF fs.kind = "file" THEN <<join(INPUT_DIR, fs.entries[1])>>
                    ELSE <<>>
       IN  /\ image_paths' = paths
           /\ queue' = [i \in 1..Len(paths) |-> i]
           /\ unit' = [i \in 1..Len(paths) |-> NewFrame]
           /\ future' = [i \in 1..Len(paths) |-> None]
           /\ main' = IF paths = <<>> THEN "returned" ELSE "collect"
    /\ UNCHANGED <<normVars, saveVars, fs, fault_limit, collected, all_results>>

\* `if result:` always taken
IsTruthy_always(result) == TRUE

\* line 172: if result
IsTruthy(result) == result # None

\* lines 170-175: as_completed hands over a finished future
Collect(f) ==
    /\ main = "collect"
    /\ f \in Files \ collected
    /\ future[f] # None
    /\ collected' = collected \cup {f}
    /\ LET result == Val(future[f])[1]
           filename == Val(future[f])[2]
       IN  IF IsTruthy(result)
           THEN \E fp \in FP :
                LET details == extract_and_validate_receipt(result, fp)
                IN  IF details.raised
                    THEN /\ main' = "unwind"
                         /\ UNCHANGED all_results
                    ELSE /\ all_results' = Append(all_results,
                                details.value @@ [source_file |-> basename(filename)])
                         /\ UNCHANGED main
           ELSE UNCHANGED <<main, all_results>>
    /\ UNCHANGED <<normVars, saveVars, fs, fault_limit, image_paths, queue, unit, future>>

\* line 176: every future was handed over; the executor is shut down
Return ==
    /\ main = "collect"
    /\ collected = Files
    /\ main' = "returned"
    /\ UNCHANGED <<normVars, saveVars, fs, fault_limit, image_paths, queue, unit, future,
                   collected, all_results>>

\* an exception leaves the with block: shutdown(wait=True) lets every
\* submitted unit finish, then the exception reaches the caller
Unwind ==
    /\ main = "unwind"
    /\ \A f \in Files : unit[f].pc = "done"
    /\ main' = "raised"
    /\ UNCHANGED <<normVars, saveVars, fs, fault_limit, image_paths, queue, unit, future,
                   collected, all_results>>

NumFiles == 2

InitBatch ==
    /\ result_in = None
    /\ details_out = None
    /\ fs \in {Directory(n) : n \in 0..NumFiles} \cup {SingleFile, Missing}
    /\ fault_limit = NumFiles * MAX_RETRIES
    /\ main = "start"
    /\ image_paths = <<>>
    /\ queue = <<>>
    /\ unit = <<>>
    /\ future = <<>>
    /\ collected = {}
    /\ all_results = <<>>
    /\ SinkIdle

NextBatch ==
    \/ Resolve
    \/ \E f \in 1..Len(image_paths) : Start(f)
    \/ \E f \in 1..Len(image_paths) : Attempt(f)
    \/ \E f \in 1..Len(image_paths) : Wake(f)
    \/ \E f \in 1..Len(image_paths) : Collect(f)
    \/ Return
    \/ Unwind

SpecBatch == InitBatch /\ [][NextBatch]_vars

\* a directory that holds more images than the pool has workers
PoolExtra == 1
PoolFaults == 2

InitPool ==
    /\ result_in = None
    /\ details_out = None
    /\ fs = Directory(max_workers + PoolExtra)
    /\ fault_limit = PoolFaults
    /\ main = "start"
    /\ image_paths = <<>>
    /\ queue = <<>>
    /\ unit = <<>>
    /\ future = <<>>
    /\ collected = {}
    /\ all_results = <<>>
    /\ SinkIdle

\* the workers of the pool alone: the as_completed loop only reads the
\* futures that are done and never acts on a unit or on the queue
NextPool ==
    \/ Resolve
    \/ \E f \in 1..Len(image_paths) : Start(f)
    \/ \E f \in 1..Len(image_paths) : Attempt(f)
    \/ \E f \in 1..Len(image_paths) : Wake(f)

SpecPool == InitPool /\ [][NextPool]_vars

(***************************************************************************)
(* save_results                                                            *)
(***************************************************************************)
\* lines 195-198: the record without items, its validation_info hoisted
Flatten(res) ==
    LET validation_info == IF "validation_info" \in DOMAIN res
                           THEN res.validation_info ELSE EmptyDict
        rest == [k \in DOMAIN res \ {"items", "validation_info"} |-> res[k]]
    IN  validation_info @@ rest

RECURSIVE FlatResults(_)
FlatResults(rl) ==
    IF rl = <<>> THEN <<>> ELSE <<Flatten(Head(rl))>> \o FlatResults(Tail(rl))

\* the columns of pd.DataFrame(flat_results): every key of every record
Columns(flat) == UNION {DOMAIN flat[i] : i \in 1..Len(flat)}

HeaderLine(flat) == [kind |-> "header", columns |-> Columns(flat)]
RowLine(r) == [kind |-> "row", cells |-> r]

\* header=True whatever is on disk
WriteHeader_always(file) == TRUE

\* line 202: header=not os.path.exists(csv_filename)
WriteHeader(file) == file = None

\* df.to_csv(csv_filename, mode='a', header=..., index=False)
to_csv(file, flat) ==
    LET old == IF file = None THEN <<>> ELSE Val(file)
        header == IF WriteHeader(file) THEN <<HeaderLine(flat)>> ELSE <<>>
    IN  Some(old \o header \o [i \in 1..Len(flat) |-> RowLine(flat[i])])

MaxSaves == 3
MaxRecs == 2

save_results(rl) ==
    /\ saves < MaxSaves
    /\ saves' = saves + 1
    /\ results_list' = rl
    /\ IF rl = <<>> THEN UNCHANGED <<json_file, csv_file>>
       ELSE /\ json_file' = Some(rl)
            /\ csv_file' = to_csv(csv_file, FlatResults(rl))
    /\ UNCHANGED <<normVars, batchVars>>

\* records as the orchestrator makes them: a full one, and the one of a
\* response without a document
SaveRecords ==
    {extract_and_validate_receipt(Some(p[1]),
            [tie_up |-> FALSE, edge_below |-> FALSE]).value
        @@ [source_file |-> basename(join(INPUT_DIR, ImageName(p[2])))] :
        p \in {<<GoodResponse, 1>>, <<NoDocument, 2>>}}

InitSave ==
    /\ result_in = None
    /\ details_out = None
    /\ BatchIdle

NextSave == \E rl \in SeqsUpTo(SaveRecords, MaxRecs) : save_results(rl)

SpecSave == InitSave /\ [][NextSave]_vars

(***************************************************************************)
(* Properties of the normalizer.                                           *)
(***************************************************************************)
Done == details_out # None
HasDoc == result_in # None /\ Val(result_in).documents # <<>>
ReturnedRecord == Done /\ HasDoc /\ ~Val(details_out).raised
Rec == Val(details_out).value
InFields == Val(result_in).documents[1].fields

\* the value the backend gave for a field, None when absent or null
Given(f) == IF f = None THEN None ELSE Val(f).value

Min(a, b) == IF a < b THEN a ELSE b

\* C10: with no backend vendor name and recognized text present, vendor_name
\* is the first of the first 5 non-blank stripped lines that has at least 3
\* characters and matches no junk word whatever its case, or null when none
\* does; a vendor name given by the backend is emitted as it is.
C10_VendorFallback ==
    ReturnedRecord =>
        LET content == Val(result_in).content
            bv == Given(InFields.VendorName)
            nonblank == FilterNonEmpty(StripAll(split(Val(content))))
            first5 == 1..Min(5, Len(nonblank))
            survives(i) ==
                /\ Len(nonblank[i]) >= 3
                /\ \A j \in JUNK_WORDS : lower(nonblank[i]) # lower(j)
        IN  /\ (bv = None /\ TruthyStr(content)) =>
                IF \E i \in first5 : survives(i)
                THEN \E i \in first5 :
                        /\ survives(i)
                        /\ \A j \in 1..(i - 1) : ~survives(j)
                        /\ Rec.vendor_name = Some(nonblank[i])
                ELSE Rec.vendor_name = None
            /\ TruthyStr(bv) => Rec.vendor_name = bv

\* the example of the specification: RECEIPT / Thank You / Joe's Diner /
\* 123 Main St with no backend vendor gives Joe's Diner
C10_Witness ==
    /\ ReturnedRecord
    /\ InFields.VendorName = Absent
    /\ Val(result_in).content = Some(Join(<<L_RECEIPT, L_THANKS, L_JOE, L_MAIN>>))
    /\ Rec.vendor_name = Some(L_JOE)

\* the backend's line items, <<>> when the Items field is absent or null
InItems ==
    IF Given(InFields.Items) = None THEN <<>> ELSE Val(Given(InFields.Items))

InPrice(i) ==
    IF InItems[i].value.TotalPrice = None THEN 0
    ELSE Val(Given(InItems[i].value.TotalPrice))

InDesc(i) == Given(InItems[i].value.Description)

KEYWORDS_UPPER ==
    { <<"D","I","S","C","O","U","N","T">>, <<"C","O","U","P","O","N">>,
      <<"S","A","V","I","N","G">> }

Qualifies(i) ==
    \/ InDesc(i) # None /\ \E k \in KEYWORDS_UPPER : contains(upper(Val(InDesc(i))), k)
    \/ InPrice(i) < 0

RECURSIVE DiscountSum(_)
DiscountSum(n) ==
    IF n = 0 THEN 0
    ELSE DiscountSum(n - 1) + (IF Qualifies(n) THEN Abs(InPrice(n)) ELSE 0)

\* C6: the discount of a record is the sum of |price| over the items whose
\* description holds a keyword (any case) or whose price is negative, each
\* counted once, and the record's items are the backend's, in its order.
C6_DiscountSum ==
    ReturnedRecord =>
        /\ Rec.discount = DiscountSum(Len(InItems))
        /\ Len(Rec.items) = Len(InItems)
        /\ \A i \in 1..Len(InItems) :
            /\ Rec.items[i].description = InDesc(i)
            /\ Rec.items[i].price = Some(InPrice(i))

\* an item priced -5.00 described "Loyalty Discount", after a coupon of 2.50,
\* adds 5.00: the discount is 7.50
C6_Witness ==
    /\ ReturnedRecord
    /\ Len(InItems) = 2
    /\ InDesc(1) = Some(D_COUPON) /\ InPrice(1) = 2500
    /\ InDesc(2) = Some(D_LOYALTY) /\ InPrice(2) = -5000
    /\ Rec.discount = 7500

\* C5: on a response that has a document the call returns a record, whatever
\* fields and item sub-fields are absent or null.
C5_NeverRaises ==
    (Done /\ HasDoc) => ~Val(details_out).raised

\* the sum the code compares with the total, before rounding
UnroundedTotal ==
    OrZero(Rec.subtotal) - Rec.discount + OrZero(Rec.tax) + OrZero(Rec.tip)

ResultOf(f) == Val(future[f])[1]
Succeeded(f) == unit[f].pc = "done" /\ ResultOf(f) # None
Failed(f) == unit[f].pc = "done" /\ ResultOf(f) = None
RecordsOf(f) ==
    {i \in 1..Len(all_results) :
        all_results[i].source_file = basename(image_paths[f])}

\* C1: on an existing file there are at most 3 attempts; a call that
\* succeeds at its k-th attempt has waited 1, 2, ... after the k-1 failed
\* ones (1 and 2, in total 3, before a third attempt that succeeds); a call
\* whose 3 attempts raise returns the failure value after the two waits 1
\* and 2, none after the last attempt.
C1_RetryBackoff ==
    \A f \in Files :
        LET u == unit[f]
        IN  /\ u.attempts <= 3
            /\ (u.found /\ Succeeded(f)) =>
                    u.waits = SubSeq(<<1, 2>>, 1, u.attempts - 1)
            /\ (u.found /\ Failed(f)) =>
                    u.attempts = 3 /\ u.waits = <<1, 2>>

\* two attempts raised, the third succeeded
C1_Witness ==
    \E f \in Files :
        /\ Succeeded(f)
        /\ unit[f].attempts = 3
        /\ unit[f].waits = <<1, 2>>

\* C9: a call on a path that does not exist returns the failure value with
\* no client created, no attempt made and no wait.
C9_NotFoundImmediate ==
    \A f \in Files :
        (unit[f].pc # "queued" /\ ~unit[f].found) =>
            /\ Failed(f)
            /\ unit[f].clients = 0
            /\ unit[f].attempts = 0
            /\ unit[f].waits = <<>>

C9_Witness ==
    \E f \in Files : Failed(f) /\ ~unit[f].found

\* C2: a run that returns holds exactly one record, tagged with the file's
\* basename, for every image whose client call succeeded and none for an
\* image whose call failed; a failed call never makes the run raise.
C2_FailuresContained ==
    /\ main = "returned" =>
        /\ \A f \in Files : unit[f].pc = "done"
        /\ \A f \in Files : Succeeded(f) => Cardinality(RecordsOf(f)) = 1
        /\ \A f \in Files : Failed(f) => RecordsOf(f) = {}
        /\ Len(all_results) = Cardinality({f \in Files : Succeeded(f)})
    /\ main \in {"unwind", "raised"} =>
        \E f \in collected : Succeeded(f)

\* two images, one not found and one analyzed: one record, of the latter
C2_Witness ==
    /\ main = "returned"
    /\ Len(image_paths) = 2
    /\ Failed(1) /\ ~unit[1].found
    /\ Succeeded(2)
    /\ Len(all_results) = 1
    /\ all_results[1].source_file = basename(image_paths[2])

\* C3: a response without a document leaves no record of its file in the
\* result collection.
C3_NoDocumentDropped ==
    \A f \in collected :
        (Succeeded(f) /\ Val(ResultOf(f)).documents = <<>>) => RecordsOf(f) = {}

\* C7: at most 5 units are between the start and the end of their
\* analyze_document call; the k-th image leaves the queue only after k - 5
\* units ended; a unit that sleeps holds no other unit back.
C7_PoolBound ==
    /\ Cardinality(InFlight) <= 5
    /\ \A f \in Files :
        unit[f].pc # "queued" =>
            Cardinality({g \in Files : unit[g].pc = "done"}) >= f - 5
    /\ \A f, g \in Files :
        (unit[f].pc = "sleep" /\ unit[g].pc = "try") => ENABLED Attempt(g)

\* 5 units in flight, one of them asleep, while an image waits in the queue
C7_Witness ==
    /\ Cardinality(InFlight) = 5
    /\ queue # <<>>
    /\ \E f \in InFlight : unit[f].pc = "sleep"

(***************************************************************************)
(* Properties of the sink.                                                 *)
(***************************************************************************)
Lines == IF csv_file = None THEN <<>> ELSE Val(csv_file)

\* C8: a call with records appends one row per record after the lines
\* already there and changes none of them; the header is written by the
\* call that creates the table only, so it is the first line and no other;
\* a call with no record changes neither file.
C8_SaveStep ==
    saves' = saves + 1 =>
        LET old == Lines
            new == Lines'
            n == Len(results_list')
        IN  IF n = 0 THEN UNCHANGED <<csv_file, json_file>>
            ELSE /\ csv_file' # None
                 /\ Len(new) = Len(old) + n + (IF csv_file = None THEN 1 ELSE 0)
                 /\ SubSeq(new, 1, Len(old)) = old
                 /\ \A i \in 1..n :
                        /\ new[Len(new) - n + i].kind = "row"
                        /\ new[Len(new) - n + i].cells.source_file
                            = results_list'[i].source_file

C8_HeaderOnce ==
    csv_file # None =>
        /\ Lines[1].kind = "header"
        /\ \A i \in 2..Len(Lines) : Lines[i].kind = "row"

C8_AppendOnly == [][C8_SaveStep]_vars /\ []C8_HeaderOnce

\* a third call that appended rows to the rows of the earlier calls
C8_Witness ==
    /\ saves = 3
    /\ results_list # <<>>
    /\ Len(Lines) > 1 + Len(results_list)

====
